---- MODULE Spec2Model ----
(***************************************************************************)
(* Model of the YOLO vehicle damage detection API (src/main.py): the       *)
(* background model loader (download_and_load_model), the module globals   *)
(* model / model_ready / model_error, and the request handlers, above all  *)
(* POST /detect with its detection-to-report pipeline.                      *)
(*                                                                         *)
(* Python strings are modelled as sequences of one-character strings, so   *)
(* that startswith, replace, title, the f-string formatting of damage_id   *)
(* and sorted() are computed rather than assumed.  Python's None is the    *)
(* value None; a confidence is an integer number of thousandths.           *)
(***************************************************************************)
EXTENDS Integers, Sequences, FiniteSets, TLC

\* ------------------------------------------------------------- bounds

\* Longest detector output enumerated exhaustively.
MaxDet == 3

\* Length of the one long detector output (damage_id ordinals of two digits).
LongRun == 11

\* Number of callers of the load trigger in SpecTrigger.
NumCallers == 2

\* Passes through the download block after which no new attempt is followed.
MaxAttempts == 2

\* ------------------------------------------------------------ strings

None == <<"None">>

\* The code points Python compares strings by, for the characters used.
Ord(c) ==
  CASE c = " " -> 32 [] c = "/" -> 47 [] c = "_" -> 95
    [] c = "0" -> 48 [] c = "1" -> 49 [] c = "2" -> 50 [] c = "3" -> 51
    [] c = "4" -> 52 [] c = "5" -> 53 [] c = "6" -> 54 [] c = "7" -> 55
    [] c = "8" -> 56 [] c = "9" -> 57
    [] c = "A" -> 65 [] c = "B" -> 66 [] c = "C" -> 67 [] c = "D" -> 68
    [] c = "G" -> 71 [] c = "L" -> 76
    [] c = "M" -> 77 [] c = "P" -> 80 [] c = "Q" -> 81 [] c = "R" -> 82
    [] c = "S" -> 83 [] c = "V" -> 86 [] c = "X" -> 88
    [] c = "a" -> 97 [] c = "b" -> 98 [] c = "c" -> 99 [] c = "d" -> 100
    [] c = "e" -> 101 [] c = "f" -> 102 [] c = "g" -> 103 [] c = "h" -> 104
    [] c = "i" -> 105 [] c = "j" -> 106 [] c = "k" -> 107 [] c = "l" -> 108
    [] c = "m" -> 109 [] c = "n" -> 110 [] c = "o" -> 111 [] c = "p" -> 112
    [] c = "q" -> 113 [] c = "r" -> 114 [] c = "s" -> 115 [] c = "t" -> 116
    [] c = "u" -> 117 [] c = "v" -> 118 [] c = "w" -> 119 [] c = "x" -> 120
    [] c = "y" -> 121 [] c = "z" -> 122
    [] c = "â" -> 226 [] c = "ã" -> 227
    [] OTHER -> 0

LowerCase == <<"a","b","c","d","e","f","g","h","i","j","k","l","m",
               "n","o","p","q","r","s","t","u","v","w","x","y","z">>
UpperCase == <<"A","B","C","D","E","F","G","H","I","J","K","L","M",
               "N","O","P","Q","R","S","T","U","V","W","X","Y","Z">>

IsLower(c) == \E i \in 1..Len(LowerCase) : LowerCase[i] = c
IsUpper(c) == \E i \in 1..Len(UpperCase) : UpperCase[i] = c
IsCased(c) == IsLower(c) \/ IsUpper(c)
ToUpper(c) ==
  IF IsLower(c) THEN UpperCase[CHOOSE i \in 1..Len(LowerCase) : LowerCase[i] = c] ELSE c
ToLower(c) ==
  IF IsUpper(c) THEN LowerCase[CHOOSE i \in 1..Len(UpperCase) : UpperCase[i] = c] ELSE c

\* str.startswith(prefix)
StartsWith(s, prefix) ==
  Len(s) >= Len(prefix) /\ SubSeq(s, 1, Len(prefix)) = prefix

\* str.replace(old, new) for one-character old and new
Replace(s, old, new) == [i \in 1..Len(s) |-> IF s[i] = old THEN new ELSE s[i]]

\* str.title(): a cased character is upper-cased after an uncased one (or at the
\* start) and lower-cased after a cased one.
Title(s) ==
  [i \in 1..Len(s) |->
     IF i > 1 /\ IsCased(s[i-1]) THEN ToLower(s[i]) ELSE ToUpper(s[i])]

\* Python's < on strings: code points, then length.
RECURSIVE StrLess(_, _)
StrLess(a, b) ==
  IF b = <<>> THEN FALSE
  ELSE IF a = <<>> THEN TRUE
  ELSE IF Ord(Head(a)) # Ord(Head(b)) THEN Ord(Head(a)) < Ord(Head(b))
  ELSE StrLess(Tail(a), Tail(b))

\* A variant of Sorted that leaves the list in the order it was built.
Sorted_AsBuilt(s) == s

\* sorted(list of strings), a stable insertion sort
RECURSIVE InsertSorted(_, _)
InsertSorted(x, s) ==
  IF s = <<>> THEN <<x>>
  ELSE IF StrLess(x, Head(s)) THEN <<x>> \o s
  ELSE <<Head(s)>> \o InsertSorted(x, Tail(s))

RECURSIVE Sorted(_)
Sorted(s) ==
  IF s = <<>> THEN <<>>
  ELSE InsertSorted(s[Len(s)], Sorted(SubSeq(s, 1, Len(s) - 1)))

DigitChars == <<"0","1","2","3","4","5","6","7","8","9">>

\* str(n) for n >= 0
RECURSIVE Decimal(_)
Decimal(n) ==
  IF n < 10 THEN <<DigitChars[n + 1]>>
  ELSE Decimal(n \div 10) \o <<DigitChars[(n % 10) + 1]>>

\* f"{n:0Wd}": zero-padded on the left to at least width characters
RECURSIVE ZeroPad(_, _)
ZeroPad(s, width) == IF Len(s) >= width THEN s ELSE ZeroPad(<<"0">> \o s, width)

\* ------------------------------------------------- classification table

\* Raw labels (keys of DAMAGE_CONFIG) and one label the table does not hold.
shattered_glass == <<"s","h","a","t","t","e","r","e","d","_","g","l","a","s","s">>
broken_lamp == <<"b","r","o","k","e","n","_","l","a","m","p">>
flat_tire == <<"f","l","a","t","_","t","i","r","e">>
dent == <<"d","e","n","t">>
scratch == <<"s","c","r","a","t","c","h">>
crack == <<"c","r","a","c","k">>
rust_spot == <<"r","u","s","t","_","s","p","o","t">>

\* DAMAGE_CONFIG['severity_map']
severity_map ==
  (shattered_glass :> "Severo") @@ (broken_lamp :> "Severo") @@
  (flat_tire :> "Severo") @@ (dent :> "Moderado") @@
  (scratch :> "Leve") @@ (crack :> "Leve")

\* DAMAGE_CONFIG['location_map']
location_map ==
  (shattered_glass :> "Para-brisa/Vidros") @@ (flat_tire :> "Rodas") @@
  (broken_lamp :> "Faróis/Lanternas") @@ (dent :> "Carroceria") @@
  (scratch :> "Pintura") @@ (crack :> "Para-choque/Plásticos")

\* DAMAGE_CONFIG['class_names']
class_names ==
  (shattered_glass :> <<"V","i","d","r","o"," ","Q","u","e","b","r","a","d","o">>) @@
  (broken_lamp :> <<"L","â","m","p","a","d","a"," ","Q","u","e","b","r","a","d","a">>) @@
  (flat_tire :> <<"P","n","e","u"," ","V","a","z","i","o">>) @@
  (dent :> <<"A","m","a","s","s","a","d","o">>) @@
  (scratch :> <<"R","i","s","c","o">>) @@
  (crack :> <<"R","a","c","h","a","d","u","r","a">>)

\* dict.get(key, default)
DictGet(d, k, default) == IF k \in DOMAIN d THEN d[k] ELSE default

\* ------------------------------------------------------- the detector

\* model.names of the loaded detector: class id -> raw label.  The artifact is
\* external; the table's fallbacks exist for a label such as the last one.
ModelNames ==
  (0 :> scratch) @@ (1 :> dent) @@ (2 :> flat_tire) @@ (3 :> rust_spot)

\* results[0].boxes entries the detector may return: cls, conf (thousandths)
\* and xyxy.
Boxes ==
  { [cls |-> 0, conf |-> 910, xyxy |-> <<10, 20, 110, 220>>],
    [cls |-> 0, conf |-> 450, xyxy |-> <<5, 5, 50, 60>>],
    [cls |-> 1, conf |-> 780, xyxy |-> <<30, 40, 90, 95>>],
    [cls |-> 2, conf |-> 660, xyxy |-> <<200, 10, 300, 180>>],
    [cls |-> 3, conf |-> 520, xyxy |-> <<0, 0, 640, 480>>] }

\* The sequences of boxes of at most n entries.
BoxSeqs(n) == UNION { [1..k -> Boxes] : k \in 0..n }

\* One long output: entry k is of class k mod 4, each with its own confidence
\* and box.
LongOutput ==
  [k \in 1..LongRun |->
     [cls |-> k % 4, conf |-> 100 + k, xyxy |-> <<k, k, k + 50, k + 80>>]]

\* What model(img_array) may return as results[0].boxes.
DetectorOutputs == BoxSeqs(MaxDet) \cup {LongOutput}

\* ------------------------------------------- detection-to-report pipeline

\* "Processar resultados": one detection per box, in the detector's order.
ExtractDetections(boxes) ==
  [i \in 1..Len(boxes) |->
     [class |-> ModelNames[boxes[i].cls],
      confidence |-> boxes[i].conf,
      bbox |-> boxes[i].xyxy]]

\* A variant of DamageId that numbers from the enumerate index itself.
DamageId_FromZero(i) == <<"D","M","G","_">> \o ZeroPad(Decimal(i), 3)

\* f"DMG_{i+1:03d}" for the enumerate index i (from 0).
DamageId(i) == <<"D","M","G","_">> \o ZeroPad(Decimal(i + 1), 3)

\* A variant of DamageRecord whose display name falls back to the raw label.
DamageRecord_RawFallback(i, detection) ==
  [damage_id |-> DamageId(i),
   class |-> detection.class,
   class_display |-> DictGet(class_names, detection.class, detection.class),
   confidence |-> detection.confidence,
   severity |-> DictGet(severity_map, detection.class, "Indefinido"),
   location |-> DictGet(location_map, detection.class, "N/A"),
   bbox |-> detection.bbox]

\* The record appended to damage_analysis for detections[i] (index from 0).
DamageRecord(i, detection) ==
  [damage_id |-> DamageId(i),
   class |-> detection.class,
   class_display |->
     DictGet(class_names, detection.class, Title(Replace(detection.class, "_", " "))),
   confidence |-> detection.confidence,
   severity |-> DictGet(severity_map, detection.class, "Indefinido"),
   location |-> DictGet(location_map, detection.class, "N/A"),
   bbox |-> detection.bbox]

\* "Processar análise de danos"
DamageAnalysis(detections) ==
  [k \in 1..Len(detections) |-> DamageRecord(k - 1, detections[k])]

\* A variant of SeverityCount that counts a severity it has no key for under a
\* new key.
RECURSIVE SeverityCount_AnyKey(_)
SeverityCount_AnyKey(damage_analysis) ==
  IF damage_analysis = <<>>
  THEN [Leve |-> 0, Moderado |-> 0, Severo |-> 0]
  ELSE LET n == Len(damage_analysis)
           count == SeverityCount_AnyKey(SubSeq(damage_analysis, 1, n - 1))
           severity == damage_analysis[n].severity
       IN  IF severity \in DOMAIN count
           THEN [count EXCEPT ![severity] = @ + 1]
           ELSE (severity :> 1) @@ count

\* "Calcular estatísticas": the severity_count dictionary after the loop.
RECURSIVE SeverityCount(_)
SeverityCount(damage_analysis) ==
  IF damage_analysis = <<>>
  THEN [Leve |-> 0, Moderado |-> 0, Severo |-> 0]
  ELSE LET n == Len(damage_analysis)
           count == SeverityCount(SubSeq(damage_analysis, 1, n - 1))
           severity == damage_analysis[n].severity
       IN  IF severity \in DOMAIN count
           THEN [count EXCEPT ![severity] = @ + 1]
           ELSE count

\* "Calcular estatísticas": the damage_types list after the loop.
RECURSIVE DamageTypes(_)
DamageTypes(damage_analysis) ==
  IF damage_analysis = <<>>
  THEN <<>>
  ELSE LET n == Len(damage_analysis)
           types == DamageTypes(SubSeq(damage_analysis, 1, n - 1))
           display_name == damage_analysis[n].class_display
       IN  IF \E j \in 1..Len(types) : types[j] = display_name
           THEN types
           ELSE Append(types, display_name)

\* A variant of Urgency that tests Moderado before Severo.
Urgency_ModeradoFirst(severity_count) ==
  IF severity_count.Moderado > 0 THEN "Média"
  ELSE IF severity_count.Severo > 0 THEN "Alta"
  ELSE "Baixa"

\* "Determinar urgência"
Urgency(severity_count) ==
  IF severity_count.Severo > 0 THEN "Alta"
  ELSE IF severity_count.Moderado > 0 THEN "Média"
  ELSE "Baixa"

\* Python truthiness of an optional string: neither None nor empty.
Truthy(v) == v # None /\ v # <<>>

\* Python truthiness of an Optional[int], held as <<>> (None) or <<n>>.
TruthyInt(v) == v # <<>> /\ v[1] # 0

NaoInformado == <<"N","ã","o"," ","i","n","f","o","r","m","a","d","o">>

\* x or "Não informado"
OrDefault(v) == IF Truthy(v) THEN v ELSE NaoInformado

\* "Preparar resposta": the response dictionary before the annotated image.
Report(filename, vehicle, detections) ==
  LET damage_analysis == DamageAnalysis(detections)
      severity_count == SeverityCount(damage_analysis)
  IN  [inspection_info |->
         [timestamp |-> "now", inspector |-> "Sistema IA YOLO API",
          version |-> "2.1.0", original_filename |-> filename],
       vehicle_info |->
         [plate |-> OrDefault(vehicle.plate),
          model |-> OrDefault(vehicle.model),
          year |-> IF TruthyInt(vehicle.year) THEN Decimal(vehicle.year[1])
                   ELSE NaoInformado,
          color |-> OrDefault(vehicle.color)],
       damage_analysis |->
         [total_damages |-> Len(damage_analysis),
          severity_count |-> severity_count,
          damage_types |-> Sorted(DamageTypes(damage_analysis)),
          repair_urgency |-> Urgency(severity_count)],
       damages |-> damage_analysis]

\* The data URI of the plotted boxes: prefix and payload.
AnnotatedImage(boxes) == <<"data:image/jpeg;base64,", boxes>>

\* ---------------------------------------------------------------- state

VARIABLES
  model,        \* the global model: None or the handle YOLO(model_path) returned
  model_ready,  \* the global model_ready
  model_error,  \* the global model_error: None or the recorded reason
  pc,           \* where each thread that runs the loader stands
  file,         \* car_damage_best.pt on disk: "absent", "partial" or "complete"
  fetches,      \* number of requests.get calls made for the artifact
  req,          \* the request being served, its inputs and its response
  fetch_log,    \* history: what each pass through the download block did, in order
  answers       \* history: the answers GET /ready gave, each with the state it was given in

vars == <<model, model_ready, model_error, pc, file, fetches, req, fetch_log, answers>>

\* Thread 1 is the thread the module starts when it is imported; the others
\* call the load trigger themselves.
Threads == 1..NumCallers

\* The lines of download_and_load_model a thread can stand at.
LoadingPcs == {"test_opencv", "download", "stream", "yolo", "warmup", "set_ready"}

\* The lifecycle state the globals and the loader threads amount to.
ModelState ==
  IF model_ready THEN "Ready"
  ELSE IF model_error # None THEN "Failed"
  ELSE IF \E t \in Threads : pc[t] \in LoadingPcs THEN "Loading"
  ELSE "NotLoaded"

\* Reasons the loader records.
OpenCVError == <<"OpenCV não está funcionando corretamente">>
YoloError(e) == <<"Erro YOLO: ", e>>
FetchErrors == {<<"HTTPError: 404 Client Error">>, <<"ConnectionError: timed out">>}
StreamErrors == {<<"ChunkedEncodingError: connection broken">>}
YoloExceptions == {"invalid checkpoint", "CUDA error"}

\* No request in flight.
Idle ==
  [pc |-> "idle", endpoint |-> "", content_type |-> None, seen |-> {},
   read_ready |-> FALSE, read_error |-> None, stages |-> {}, input |-> <<>>,
   status |-> 0,
   body |-> [detail |-> <<>>]]

InFlight == req.pc \notin {"idle", "done"}

Init ==
  /\ model = None
  /\ model_ready = FALSE
  /\ model_error = None
  /\ pc = [t \in Threads |-> IF t = 1 THEN "sleep" ELSE "idle"]
  /\ file \in {"absent", "complete"}
  /\ fetches = 0
  /\ req = Idle
  /\ fetch_log = <<>>
  /\ answers = {}

\* A request in flight records every lifecycle state it lives through (a
\* history of the run, read by no handler).
Observed == 
  req' = IF InFlight THEN [req EXCEPT !.seen = @ \cup {ModelState'}] ELSE req

\* ---------------------------------------------------------- the loader

\* A caller invokes the load trigger: download_and_load_model() begins.
Trigger(t) ==
  /\ pc[t] = "idle"
  /\ pc' = [pc EXCEPT ![t] = "test_opencv"]
  /\ UNCHANGED <<model, model_ready, model_error, file, fetches, fetch_log, answers>>
  /\ Observed

\* start_model_loading: the five seconds are over, the load begins.
StartModelLoading(t) ==
  /\ pc[t] = "sleep"
  /\ pc' = [pc EXCEPT ![t] = "test_opencv"]
  /\ UNCHANGED <<model, model_ready, model_error, file, fetches, fetch_log, answers>>
  /\ Observed

\* A variant of Fail whose assignment does not reach the global (as without
\* the global statement).
Fail_Unrecorded(t, reason) ==
  /\ model_error' = model_error
  /\ pc' = [pc EXCEPT ![t] = "done"]

\* The loader stops with the reason recorded.
Fail(t, reason) ==
  /\ model_error' = reason
  /\ pc' = [pc EXCEPT ![t] = "done"]

\* if not test_opencv(): model_error = ...; return
TestOpencv(t) ==
  /\ pc[t] = "test_opencv"
  /\ \/ /\ pc' = [pc EXCEPT ![t] = "download"]
        /\ UNCHANGED model_error
     \/ Fail(t, OpenCVError)
  /\ UNCHANGED <<model, model_ready, file, fetches, fetch_log, answers>>
  /\ Observed

\* A variant of Download that requests the artifact whether or not the file exists.
Download_Always(t) ==
  /\ pc[t] = "download"
  /\ fetches' = fetches + 1
  /\ \/ /\ file' = "partial"
        /\ pc' = [pc EXCEPT ![t] = "stream"]
        /\ fetch_log' = Append(fetch_log, "created")
        /\ UNCHANGED model_error
     \/ /\ \E e \in FetchErrors : Fail(t, e)
        /\ fetch_log' = Append(fetch_log, "request_failed")
        /\ UNCHANGED file
  /\ UNCHANGED <<model, model_ready, answers>>
  /\ Observed

\* if not os.path.exists(model_path): requests.get, raise_for_status, open
Download(t) ==
  /\ pc[t] = "download"
  /\ IF file # "absent"
     THEN /\ pc' = [pc EXCEPT ![t] = "yolo"]
          /\ fetch_log' = Append(fetch_log, "skipped")
          /\ UNCHANGED <<model_error, file, fetches>>
     ELSE /\ fetches' = fetches + 1
          /\ \/ /\ file' = "partial"
                /\ pc' = [pc EXCEPT ![t] = "stream"]
                /\ fetch_log' = Append(fetch_log, "created")
                /\ UNCHANGED model_error
             \/ /\ \E e \in FetchErrors : Fail(t, e)
                /\ fetch_log' = Append(fetch_log, "request_failed")
                /\ UNCHANGED file
  /\ UNCHANGED <<model, model_ready, answers>>
  /\ Observed

\* for chunk in response.iter_content(...): f.write(chunk)
Stream(t) ==
  /\ pc[t] = "stream"
  /\ \/ /\ file' = "complete"
        /\ pc' = [pc EXCEPT ![t] = "yolo"]
        /\ UNCHANGED model_error
     \/ /\ \E e \in StreamErrors : Fail(t, e)
        /\ UNCHANGED file
  /\ UNCHANGED <<model, model_ready, fetches, fetch_log, answers>>
  /\ Observed

\* A variant of LoadYolo that sets model_ready as soon as the handle is
\* assigned, before the test inference.
LoadYolo_ReadyBeforeWarmup(t) ==
  /\ pc[t] = "yolo"
  /\ \/ /\ file = "complete"
        /\ model' = <<"YOLO", t>>
        /\ model_ready' = TRUE
        /\ pc' = [pc EXCEPT ![t] = "warmup"]
        /\ UNCHANGED model_error
     \/ /\ \E e \in YoloExceptions : Fail(t, YoloError(e))
        /\ UNCHANGED <<model, model_ready>>
  /\ UNCHANGED <<file, fetches, fetch_log, answers>>
  /\ Observed

\* model = YOLO(model_path), inside the inner try
LoadYolo(t) ==
  /\ pc[t] = "yolo"
  /\ \/ /\ file = "complete"
        /\ model' = <<"YOLO", t>>
        /\ pc' = [pc EXCEPT ![t] = "warmup"]
        /\ UNCHANGED model_error
     \/ /\ \E e \in YoloExceptions : Fail(t, YoloError(e))
        /\ UNCHANGED model
  /\ UNCHANGED <<model_ready, file, fetches, fetch_log, answers>>
  /\ Observed

\* A variant of Warmup whose except clause records the reason and lets the
\* load go on to model_ready = True.
Warmup_FallsThrough(t) ==
  /\ pc[t] = "warmup"
  /\ \/ /\ pc' = [pc EXCEPT ![t] = "set_ready"]
        /\ UNCHANGED model_error
     \/ /\ \E e \in YoloExceptions : model_error' = YoloError(e)
        /\ pc' = [pc EXCEPT ![t] = "set_ready"]
  /\ UNCHANGED <<model, model_ready, file, fetches, fetch_log, answers>>
  /\ Observed

\* test_results = model(test_img, verbose=False); len(model.names)
Warmup(t) ==
  /\ pc[t] = "warmup"
  /\ \/ /\ pc' = [pc EXCEPT ![t] = "set_ready"]
        /\ UNCHANGED model_error
     \/ \E e \in YoloExceptions : Fail(t, YoloError(e))
  /\ UNCHANGED <<model, model_ready, file, fetches, fetch_log, answers>>
  /\ Observed

\* model_ready = True
SetReady(t) ==
  /\ pc[t] = "set_ready"
  /\ model_ready' = TRUE
  /\ pc' = [pc EXCEPT ![t] = "done"]
  /\ UNCHANGED <<model, model_error, file, fetches, fetch_log, answers>>
  /\ Observed

Loader(t) ==
  \/ StartModelLoading(t)
  \/ TestOpencv(t)
  \/ Download(t)
  \/ Stream(t)
  \/ LoadYolo(t)
  \/ Warmup(t)
  \/ SetReady(t)

\* ------------------------------------------------------------ requests

\* Content types an upload may declare: missing, empty, images and others.
ContentTypes ==
  { None, <<>>,
    <<"i","m","a","g","e","/","j","p","e","g">>,
    <<"t","e","x","t","/","p","l","a","i","n">>,
    <<"i","m","a","g","e">>,
    <<"I","m","a","g","e","/","p","n","g">> }

\* Query parameters vehicle_plate, vehicle_model, vehicle_year, vehicle_color.
Vehicles ==
  { [plate |-> None, model |-> <<>>, year |-> <<0>>, color |-> None],
    [plate |-> <<"A","B","C","-","1","2","3","4">>, model |-> <<"C","o","r","o","l","l","a">>,
     year |-> <<2020>>, color |-> <<"B","r","a","n","c","o">>] }

\* The steps of the try block of detect_damage, in order.
Stages == <<"read", "decode", "infer", "extract", "classify", "aggregate", "respond">>

\* The steps entered when step f raises.
StagesUpTo(f) ==
  LET last == CHOOSE i \in 1..Len(Stages) : Stages[i] = f
  IN  {Stages[i] : i \in 1..last}

AllStages == {Stages[i] : i \in 1..Len(Stages)}

\* What a run of the try block is given: the query parameters, what the
\* detector returns, whether plot()/save() succeed, and the step that raises,
\* if one does.
AllRuns ==
  [vehicle : Vehicles, boxes : DetectorOutputs, include_annotated_image : BOOLEAN,
   render_ok : BOOLEAN, fault : AllStages \cup {"none"}]

\* The runs that differ in what the handler does: rendering is only tried for
\* a requested image of a non-empty result, and a run that raises answers the
\* same whatever the detector found.
RunInputs ==
  { in \in AllRuns :
      /\ (~in.include_annotated_image \/ Len(in.boxes) = 0) => in.render_ok
      /\ in.fault # "none" =>
           /\ in.render_ok /\ in.include_annotated_image
           /\ in.boxes \in {<<>>, LongOutput} }

\* The runs of one caller-supplied vehicle and the shortest and longest results.
FewRuns ==
  { in \in RunInputs :
      /\ in.boxes \in {<<>>, LongOutput}
      /\ in.vehicle.plate = None }

HTTPException(status_code, detail) ==
  [req EXCEPT !.pc = "done", !.status = status_code, !.body = [detail |-> detail]]

\* if not file.content_type or not file.content_type.startswith('image/')
IsImageType(content_type) ==
  Truthy(content_type) /\ StartsWith(content_type, <<"i","m","a","g","e","/">>)

\* A variant of DetectStart that leaves the content type unchecked.
DetectStart_Unchecked(content_type) ==
  /\ req.pc = "idle"
  /\ req' = [Idle EXCEPT !.pc = "gate", !.endpoint = "/detect",
                         !.content_type = content_type, !.seen = {ModelState}]
  /\ UNCHANGED <<model, model_ready, model_error, pc, file, fetches, fetch_log, answers>>

\* POST /detect arrives: the content-type check.
DetectStart(content_type) ==
  /\ req.pc = "idle"
  /\ LET r == [Idle EXCEPT !.endpoint = "/detect", !.content_type = content_type,
                           !.seen = {ModelState}]
     IN  req' = IF ~IsImageType(content_type)
                THEN [r EXCEPT !.pc = "done", !.status = 400,
                               !.body = [detail |-> <<"Arquivo deve ser uma imagem">>]]
                ELSE [r EXCEPT !.pc = "gate"]
  /\ UNCHANGED <<model, model_ready, model_error, pc, file, fetches, fetch_log, answers>>

\* if not model_ready:
DetectGate ==
  /\ req.pc = "gate"
  /\ req' = IF model_ready THEN [req EXCEPT !.pc = "run", !.read_ready = TRUE]
            ELSE [req EXCEPT !.pc = "gate_error"]
  /\ UNCHANGED <<model, model_ready, model_error, pc, file, fetches, fetch_log, answers>>

\* A variant of DetectNotReady that holds the request until the load has ended.
DetectNotReady_Waits ==
  /\ req.pc = "gate_error"
  /\ model_ready \/ Truthy(model_error)
  /\ req' = IF Truthy(model_error)
            THEN HTTPException(500, <<"Erro no modelo: ", model_error>>)
            ELSE [req EXCEPT !.pc = "run", !.read_ready = TRUE]
  /\ UNCHANGED <<model, model_ready, model_error, pc, file, fetches, fetch_log, answers>>

\* A variant of DetectNotReady that answers 503 whether or not a reason is recorded.
DetectNotReady_Always503 ==
  /\ req.pc = "gate_error"
  /\ req' = HTTPException(503,
              <<"Modelo ainda carregando. Aguarde alguns minutos e tente novamente.">>)
  /\ UNCHANGED <<model, model_ready, model_error, pc, file, fetches, fetch_log, answers>>

\* A variant of DetectNotReady that forgets the recorded reason once it has
\* reported it.
DetectNotReady_ClearsError ==
  /\ req.pc = "gate_error"
  /\ req' = IF Truthy(model_error)
            THEN HTTPException(500, <<"Erro no modelo: ", model_error>>)
            ELSE HTTPException(503,
                   <<"Modelo ainda carregando. Aguarde alguns minutos e tente novamente.">>)
  /\ model_error' = None
  /\ UNCHANGED <<model, model_ready, pc, file, fetches, fetch_log, answers>>

\* if model_error: raise 500 else: raise 503
DetectNotReady ==
  /\ req.pc = "gate_error"
  /\ req' = IF Truthy(model_error)
            THEN HTTPException(500, <<"Erro no modelo: ", model_error>>)
            ELSE HTTPException(503,
                   <<"Modelo ainda carregando. Aguarde alguns minutos e tente novamente.">>)
  /\ UNCHANGED <<model, model_ready, model_error, pc, file, fetches, fetch_log, answers>>

\* A variant of Annotate that sets the field to None when rendering raises.
Annotate_NullField(response, in) ==
  IF in.include_annotated_image /\ Len(in.boxes) > 0
  THEN ("annotated_image" :> (IF in.render_ok THEN AnnotatedImage(in.boxes) ELSE None))
       @@ response
  ELSE response

\* A variant of Annotate that renders whenever the image is requested, also
\* for a result without detections.
Annotate_WheneverRequested(response, in) ==
  IF in.include_annotated_image /\ in.render_ok
  THEN ("annotated_image" :> AnnotatedImage(in.boxes)) @@ response
  ELSE response

\* "Incluir imagem anotada se solicitado": the response with or without the field.
Annotate(response, in) ==
  IF in.include_annotated_image /\ Len(in.boxes) > 0 /\ in.render_ok
  THEN ("annotated_image" :> AnnotatedImage(in.boxes)) @@ response
  ELSE response

\* The step that raises: the detector cannot be called through a missing handle.
Raised(in) ==
  IF model = None /\ in.fault \notin {"read", "decode"} THEN "infer" ELSE in.fault

\* A variant of DetectRun that answers 200 with what it has built when a step
\* after the detection raises.
DetectRun_Partial(in) ==
  /\ req.pc = "run"
  /\ LET f == Raised(in)
         r == [req EXCEPT !.input = in]
         detections == ExtractDetections(in.boxes)
     IN  req' =
           IF f \in {"read", "decode", "infer", "extract"}
           THEN [r EXCEPT !.pc = "done", !.stages = StagesUpTo(f), !.status = 500,
                          !.body = [detail |-> <<"Erro ao processar imagem: ", f>>]]
           ELSE IF f # "none"
           THEN [r EXCEPT !.pc = "done", !.stages = StagesUpTo(f), !.status = 200,
                          !.body = [damages |-> DamageAnalysis(detections)]]
           ELSE [r EXCEPT !.pc = "done", !.stages = AllStages, !.status = 200,
                          !.body = Annotate(Report("car.jpg", in.vehicle, detections), in)]
  /\ UNCHANGED <<model, model_ready, model_error, pc, file, fetches, fetch_log, answers>>

\* A variant of DetectRun that marks the model not ready when a step raises.
DetectRun_ResetsOnError(in) ==
  /\ req.pc = "run"
  /\ LET f == Raised(in)
         r == [req EXCEPT !.input = in]
     IN  /\ req' =
              IF f # "none"
              THEN [r EXCEPT !.pc = "done", !.stages = StagesUpTo(f), !.status = 500,
                             !.body = [detail |-> <<"Erro ao processar imagem: ", f>>]]
              ELSE [r EXCEPT !.pc = "done", !.stages = AllStages, !.status = 200,
                             !.body = Annotate(Report("car.jpg", in.vehicle,
                                                      ExtractDetections(in.boxes)), in)]
         /\ model_ready' = (f = "none")
  /\ UNCHANGED <<model, model_error, pc, file, fetches, fetch_log, answers>>

\* The try block of detect_damage, from file.read() to the response.
DetectRun(in) ==
  /\ req.pc = "run"
  /\ LET f == Raised(in)
         r == [req EXCEPT !.input = in]
     IN  req' =
           IF f # "none"
           THEN [r EXCEPT !.pc = "done", !.stages = StagesUpTo(f), !.status = 500,
                          !.body = [detail |-> <<"Erro ao processar imagem: ", f>>]]
           ELSE [r EXCEPT !.pc = "done", !.stages = AllStages, !.status = 200,
                          !.body = Annotate(Report("car.jpg", in.vehicle,
                                                   ExtractDetections(in.boxes)), in)]
  /\ UNCHANGED <<model, model_ready, model_error, pc, file, fetches, fetch_log, answers>>

\* GET /health: the first global is read.
HealthStart ==
  /\ req.pc = "idle"
  /\ req' = [Idle EXCEPT !.pc = "health", !.endpoint = "/health",
                         !.seen = {ModelState}, !.read_ready = model_ready]
  /\ UNCHANGED <<model, model_ready, model_error, pc, file, fetches, fetch_log, answers>>

\* A variant of Health that reports a recorded load failure as unhealthy.
Health_Strict ==
  /\ req.pc = "health"
  /\ req' = [req EXCEPT !.pc = "done",
                        !.status = IF Truthy(model_error) THEN 503 ELSE 200,
                        !.body = [status |-> IF Truthy(model_error) THEN "error" ELSE "ok",
                                  model_ready |-> req.read_ready,
                                  model_error |-> model_error,
                                  timestamp |-> "now", system |-> "healthy"]]
  /\ UNCHANGED <<model, model_ready, model_error, pc, file, fetches, fetch_log, answers>>

\* GET /health: the second global is read and the dictionary returned.
Health ==
  /\ req.pc = "health"
  /\ req' = [req EXCEPT !.pc = "done", !.status = 200,
                        !.body = [status |-> "ok", model_ready |-> req.read_ready,
                                  model_error |-> model_error,
                                  timestamp |-> "now", system |-> "healthy"]]
  /\ UNCHANGED <<model, model_ready, model_error, pc, file, fetches, fetch_log, answers>>

\* The client has its response; the next request may come.
Receive ==
  /\ req.pc = "done"
  /\ req' = Idle
  /\ UNCHANGED <<model, model_ready, model_error, pc, file, fetches, fetch_log, answers>>

\* GET /: "model_ready": model_ready is evaluated.
RootStart ==
  /\ req.pc = "idle"
  /\ req' = [Idle EXCEPT !.pc = "root", !.endpoint = "/",
                         !.seen = {ModelState}, !.read_ready = model_ready]
  /\ UNCHANGED <<model, model_ready, model_error, pc, file, fetches, fetch_log, answers>>

\* GET /: test_opencv() if not model_ready else True; cv2 works or it does not.
Root ==
  /\ req.pc = "root"
  /\ \E opencv \in BOOLEAN :
       req' = [req EXCEPT !.pc = "done", !.status = 200,
                          !.body = [message |-> "YOLO Vehicle Damage Detection API",
                                    version |-> "2.1.0", status |-> "running",
                                    model_ready |-> req.read_ready,
                                    opencv_working |-> IF model_ready THEN TRUE ELSE opencv]]
  /\ UNCHANGED <<model, model_ready, model_error, pc, file, fetches, fetch_log, answers>>

\* GET /ready: "model_ready": model_ready is evaluated.
ReadyStart ==
  /\ req.pc = "idle"
  /\ req' = [Idle EXCEPT !.pc = "ready", !.endpoint = "/ready",
                         !.seen = {ModelState}, !.read_ready = model_ready]
  /\ UNCHANGED <<model, model_ready, model_error, pc, file, fetches, fetch_log, answers>>

\* GET /ready: model_error is evaluated, test_opencv() is called and the
\* dictionary returned.  The answer given by a request that lived in one
\* lifecycle state is kept in the history.
Ready ==
  /\ req.pc = "ready"
  /\ \E opencv \in {"working", "error"} :
       /\ req' = [req EXCEPT !.pc = "done", !.status = 200, !.read_error = model_error,
                             !.body = [model_ready |-> req.read_ready,
                                       model_error |-> model_error,
                                       opencv_status |-> opencv, timestamp |-> "now"]]
       /\ answers' = IF req.seen = {ModelState}
                     THEN answers \cup {[state |-> ModelState,
                                         model_ready |-> req.read_ready,
                                         model_error |-> model_error]}
                     ELSE answers
  /\ UNCHANGED <<model, model_ready, model_error, pc, file, fetches, fetch_log>>

\* GET /debug: "ready": model_ready is evaluated.
DebugStart ==
  /\ req.pc = "idle"
  /\ req' = [Idle EXCEPT !.pc = "debug", !.endpoint = "/debug",
                         !.seen = {ModelState}, !.read_ready = model_ready]
  /\ UNCHANGED <<model, model_ready, model_error, pc, file, fetches, fetch_log, answers>>

\* GET /debug: "error": model_error is evaluated.
DebugError ==
  /\ req.pc = "debug"
  /\ req' = [req EXCEPT !.pc = "debug_exists", !.read_error = model_error]
  /\ UNCHANGED <<model, model_ready, model_error, pc, file, fetches, fetch_log, answers>>

\* GET /debug: os.path.exists("car_damage_best.pt") and the dictionary.
DebugInfo ==
  /\ req.pc = "debug_exists"
  /\ req' = [req EXCEPT !.pc = "done", !.status = 200,
                        !.body = [model_status |->
                                    [ready |-> req.read_ready, error |-> req.read_error,
                                     model_file_exists |-> file # "absent"]]]
  /\ UNCHANGED <<model, model_ready, model_error, pc, file, fetches, fetch_log, answers>>

\* GET /model/info: if not model_ready
ModelInfoStart ==
  /\ req.pc = "idle"
  /\ req' = [Idle EXCEPT !.pc = "info", !.endpoint = "/model/info",
                         !.seen = {ModelState}, !.read_ready = model_ready]
  /\ UNCHANGED <<model, model_ready, model_error, pc, file, fetches, fetch_log, answers>>

\* GET /model/info: the not_ready dictionary with model_error, or the table
\* with model.names if model else None.
ModelInfo ==
  /\ req.pc = "info"
  /\ req' = IF ~req.read_ready
            THEN [req EXCEPT !.pc = "done", !.status = 200, !.read_error = model_error,
                             !.body = [status |-> "not_ready", error |-> model_error,
                                       message |-> "Modelo ainda não carregado"]]
            ELSE [req EXCEPT !.pc = "done", !.status = 200,
                             !.body = [model_type |-> "YOLOv8",
                                       model_file |-> "car_damage_best.pt",
                                       classes |-> {class_names[k] : k \in DOMAIN class_names},
                                       total_classes |-> Cardinality(DOMAIN class_names),
                                       status |-> "ready",
                                       model_names |-> IF model # None THEN ModelNames
                                                       ELSE None]]
  /\ UNCHANGED <<model, model_ready, model_error, pc, file, fetches, fetch_log, answers>>

\* The caller goes away before the handler has answered: the handler is
\* cancelled where it stands and no response is sent.
Abandon ==
  /\ InFlight
  /\ req' = [req EXCEPT !.pc = "done", !.status = 0, !.body = [detail |-> <<"abandoned">>]]
  /\ UNCHANGED <<model, model_ready, model_error, pc, file, fetches, fetch_log, answers>>

\* The handlers that only report on the process.
Probes ==
  \/ RootStart
  \/ Root
  \/ ReadyStart
  \/ Ready
  \/ DebugStart
  \/ DebugError
  \/ DebugInfo
  \/ ModelInfoStart
  \/ ModelInfo
  \/ Abandon

Handlers(runs) ==
  \/ \E content_type \in ContentTypes : DetectStart(content_type)
  \/ DetectGate
  \/ DetectNotReady
  \/ \E in \in runs : DetectRun(in)
  \/ HealthStart
  \/ Health
  \/ Receive

\* -------------------------------------------------------- specifications

\* The program as it runs: the one loader thread of the import, and requests.
Next == Loader(1) \/ Handlers(RunInputs)

Spec == Init /\ [][Next]_vars

\* The load trigger invoked by every caller, next to the thread of the import.
NextTrigger == (\E t \in Threads : Trigger(t) \/ Loader(t)) \/ Handlers(FewRuns)

SpecTrigger == Init /\ [][NextTrigger]_vars

\* The program as it runs, with every route requested: the loader thread of
\* the import, /detect and /health, the reporting routes, and callers that
\* go away.
NextProbe == Loader(1) \/ Handlers(FewRuns) \/ Probes

SpecProbe == Init /\ [][NextProbe]_vars

\* The thread of the import is scheduled: no step of download_and_load_model
\* waits for a request, and requests.get carries a timeout.
SpecProbeFair == SpecProbe /\ WF_vars(Loader(1))

\* A caller invokes the load trigger again once every earlier call has returned.
Retry(t) ==
  /\ \A u \in Threads : pc[u] \in {"idle", "done"}
  /\ Trigger(t)

\* The load trigger invoked again and again, one call after the other.
NextRetry == (\E t \in Threads : Retry(t) \/ Loader(t)) \/ Handlers(FewRuns)

SpecRetry == Init /\ [][NextRetry]_vars

\* After a failure a caller invokes download_and_load_model() anew, whether
\* or not it has called before; nothing in the function tells callers apart.
NewAttempt(t) ==
  /\ ModelState = "Failed"
  /\ pc[t] \in {"idle", "done"}
  /\ Len(fetch_log) < MaxAttempts
  /\ pc' = [pc EXCEPT ![t] = "test_opencv"]
  /\ UNCHANGED <<model, model_ready, model_error, file, fetches, fetch_log, answers>>
  /\ Observed

\* The load of the import, and new attempts by any caller once it has failed.
NextAttempt == (\E t \in Threads : NewAttempt(t) \/ Loader(t)) \/ Handlers(FewRuns)

SpecAttempt == Init /\ [][NextAttempt]_vars

\* Labels a detector may name: the six of the table and four it does not hold
\* (a two-word one, a capitalised one, one with a digit, the empty one).
Labels ==
  { shattered_glass, broken_lamp, flat_tire, dent, scratch, crack,
    rust_spot, <<"D","e","n","t">>, <<"x","2","_","b">>, <<>> }

\* The detections lists of at most n entries over Labels; entry k carries a
\* confidence and a box of its own.
DetectionLists(n) ==
  { [k \in 1..Len(ls) |->
       [class |-> ls[k], confidence |-> 900 - k, bbox |-> <<k, k, k + 10, k + 20>>]] :
    ls \in UNION { [1..m -> Labels] : m \in 0..n } }

\* "Processar análise de danos" to "Preparar resposta", applied to a
\* detections list.
ClassifyAndAggregate(detections) ==
  /\ req.pc = "idle"
  /\ req' = [Idle EXCEPT !.pc = "done", !.endpoint = "report", !.input = detections,
                         !.status = 200,
                         !.body = Report("car.jpg", CHOOSE v \in Vehicles : v.plate = None,
                                         detections)]
  /\ UNCHANGED <<model, model_ready, model_error, pc, file, fetches, fetch_log, answers>>

\* The classification and aggregation of every detections list.
NextReport ==
  \/ \E detections \in DetectionLists(MaxDet) : ClassifyAndAggregate(detections)
  \/ Receive

SpecReport == Init /\ [][NextReport]_vars

\* ------------------------------------------------- properties: lifecycle

\* The threads that have entered download_and_load_model.
Entered == {t \in Threads : pc[t] \in LoadingPcs \cup {"done"}}

\* The threads running a load now.
Running == {t \in Threads : pc[t] \in LoadingPcs}

\* C1 (as claimed): however many callers invoke the load trigger, at most one
\* of them ever enters the load, so at most one load runs at a time.
C1_SingleFlight == Cardinality(Entered) <= 1 /\ Cardinality(Running) <= 1

\* The content types that declare an image: a string that begins "image/".
DeclaresImage(ct) ==
  /\ ct # None
  /\ Len(ct) >= 6
  /\ <<ct[1], ct[2], ct[3], ct[4], ct[5], ct[6]>> = <<"i","m","a","g","e","/">>

\* A finished /detect request.
DetectDone == req.endpoint = "/detect" /\ req.pc = "done"

\* A step of the /detect handler past the content-type check.
DetectStep == DetectGate \/ DetectNotReady \/ \E in \in RunInputs : DetectRun(in)

RetryHint == <<"Modelo ainda carregando. Aguarde alguns minutos e tente novamente.">>

\* C2: a /detect request of an image upload that lives wholly in the Loading
\* state is answered 503 with the retry hint, never 200 or 500, and while it
\* is in flight its handler can always take its next step: it waits for nothing.
C2_LoadingAnswers503 ==
  /\ (DetectDone /\ DeclaresImage(req.content_type) /\ req.seen = {"Loading"}) =>
       (req.status = 503 /\ req.body = [detail |-> RetryHint])
  /\ (req.endpoint = "/detect" /\ InFlight /\ req.seen = {"Loading"}) =>
       ENABLED DetectStep

C2_Witness ==
  DetectDone /\ req.seen = {"Loading"} /\ req.status = 503 /\ ModelState = "Loading"

\* C3: a /detect request of an image upload that lives wholly in the Failed
\* state is answered 500 with a detail that holds the recorded reason, never
\* 503 or 200, and its handler never waits.
C3_FailedAnswers500 ==
  /\ (DetectDone /\ DeclaresImage(req.content_type) /\ req.seen = {"Failed"}) =>
       /\ req.status = 500
       /\ req.body = [detail |-> <<"Erro no modelo: ", model_error>>]
       /\ model_error # None
       /\ req.stages = {}
  /\ (req.endpoint = "/detect" /\ InFlight /\ req.seen = {"Failed"}) =>
       ENABLED DetectStep

C3_Witness ==
  /\ DetectDone /\ req.seen = {"Failed"} /\ req.status = 500
  /\ model_error = YoloError("invalid checkpoint")

\* C4: a /detect request whose content type is missing or does not begin with
\* "image/" is answered 400 whatever the model state, and none of the steps of
\* the try block (read, decode, inference) is entered.
C4_NonImageAnswers400 ==
  (DetectDone /\ ~DeclaresImage(req.content_type)) =>
    (req.status = 400 /\ req.stages = {} /\ req.input = <<>>)

C4_Witness ==
  /\ DetectDone /\ req.content_type = None /\ req.status = 400
  /\ ModelState = "Ready"

\* C5: GET /health answers 200 with status "ok" in every model state.
C5_HealthAlwaysOk ==
  (req.endpoint = "/health" /\ req.pc = "done") =>
    (req.status = 200 /\ req.body.status = "ok")

C5_Witness ==
  /\ req.endpoint = "/health" /\ req.pc = "done" /\ req.status = 200
  /\ ModelState = "Failed" /\ req.body.model_error # None

\* ------------------------------------------------- properties: the report

ReportKeys == {"inspection_info", "vehicle_info", "damage_analysis", "damages"}

\* A /detect request answered 200.
Reported == DetectDone /\ req.status = 200

\* C6: a /detect request ends either with 200 and a complete report, whose
\* summary counts the very damages it lists, one per detection, or with an
\* error that holds a detail and nothing of a report; a run in which a step
\* raises always ends the second way.  Only annotated_image may be absent
\* from a 200.
C6_ReportOrError ==
  DetectDone =>
    \/ /\ req.status = 200
       /\ ReportKeys \subseteq DOMAIN req.body
       /\ DOMAIN req.body \subseteq ReportKeys \cup {"annotated_image"}
       /\ req.input.fault = "none"
       /\ req.stages = AllStages
       /\ Len(req.body.damages) = Len(req.input.boxes)
       /\ req.body.damage_analysis.total_damages = Len(req.body.damages)
       /\ {req.body.damage_analysis.damage_types[j] :
             j \in 1..Len(req.body.damage_analysis.damage_types)}
          = {req.body.damages[k].class_display : k \in 1..Len(req.body.damages)}
    \/ /\ req.status \in {400, 500, 503}
       /\ DOMAIN req.body = {"detail"}

C6_Witness ==
  /\ DetectDone /\ req.status = 500 /\ req.input # <<>>
  /\ req.input.fault = "aggregate" /\ req.input.boxes # <<>>

\* C7: when the detection pass succeeded and rendering the requested annotated
\* image raises, the answer is 200 with the whole report and no
\* annotated_image field.
C7_RenderFailureIsNotFatal ==
  (DetectDone /\ req.input # <<>> /\ req.input.fault = "none"
     /\ req.input.include_annotated_image /\ ~req.input.render_ok) =>
    /\ req.status = 200
    /\ DOMAIN req.body = ReportKeys
    /\ req.body = Report("car.jpg", req.input.vehicle, ExtractDetections(req.input.boxes))

C7_Witness ==
  /\ Reported /\ req.input.include_annotated_image /\ ~req.input.render_ok
  /\ Len(req.input.boxes) > 0 /\ "annotated_image" \notin DOMAIN req.body

\* The severities among the damages of the response.
Severities == {req.body.damages[k].severity : k \in 1..Len(req.body.damages)}

\* The damages of the response of one severity.
OfSeverity(sev) == {k \in 1..Len(req.body.damages) : req.body.damages[k].severity = sev}

\* C8: repair_urgency is Alta when some damage is Severo, otherwise Média when
\* some damage is Moderado, otherwise Baixa (also for no damage at all).
C8_UrgencyIsWorstSeverity ==
  Reported =>
    req.body.damage_analysis.repair_urgency =
      IF "Severo" \in Severities THEN "Alta"
      ELSE IF "Moderado" \in Severities THEN "Média"
      ELSE "Baixa"

C8_Witness ==
  /\ Reported /\ req.body.damage_analysis.repair_urgency = "Alta"
  /\ Cardinality(OfSeverity("Severo")) = 1
  /\ Cardinality(OfSeverity("Moderado")) = 2

\* C9: total_damages is the number of damages; severity_count has exactly the
\* keys Leve, Moderado and Severo; each counts the damages of its severity, so
\* their sum is the number of damages that are not Indefinido.
C9_CountsMatchDamages ==
  Reported =>
    LET da == req.body.damage_analysis
    IN  /\ da.total_damages = Len(req.body.damages)
        /\ DOMAIN da.severity_count = {"Leve", "Moderado", "Severo"}
        /\ \A sev \in DOMAIN da.severity_count :
             da.severity_count[sev] = Cardinality(OfSeverity(sev))
        /\ da.severity_count.Leve + da.severity_count.Moderado + da.severity_count.Severo
             = Len(req.body.damages) - Cardinality(OfSeverity("Indefinido"))
        /\ da.severity_count.Leve + da.severity_count.Moderado + da.severity_count.Severo
             <= da.total_damages

C9_Witness ==
  /\ Reported /\ Cardinality(OfSeverity("Indefinido")) > 0
  /\ req.body.damage_analysis.total_damages = 3
  /\ req.body.damage_analysis.severity_count.Leve = 1

\* "DMG_" and the three decimal digits of k, for k below 1000.
ExpectedId(k) ==
  <<"D","M","G","_">> \o
  <<DigitChars[(k \div 100) + 1], DigitChars[((k \div 10) % 10) + 1],
    DigitChars[(k % 10) + 1]>>

\* C10: the k-th box of the detector is the k-th damage, with damage_id DMG_
\* and k on three digits and with that box's class name, confidence and
\* bounding box; there are as many damages as boxes.
C10_DamagesFollowDetections ==
  Reported =>
    /\ Len(req.body.damages) = Len(req.input.boxes)
    /\ \A k \in 1..Len(req.input.boxes) :
         /\ req.body.damages[k].damage_id = ExpectedId(k)
         /\ req.body.damages[k].class = ModelNames[req.input.boxes[k].cls]
         /\ req.body.damages[k].confidence = req.input.boxes[k].conf
         /\ req.body.damages[k].bbox = req.input.boxes[k].xyxy

C10_Witness ==
  /\ Reported /\ Len(req.body.damages) = LongRun
  /\ req.body.damages[LongRun].damage_id = ExpectedId(LongRun)

\* ------------------------------------- properties: classification table

\* A report built from a detections list.
Aggregated == req.endpoint = "report" /\ req.pc = "done"

\* The severity, location and display name the table gives each of its labels.
TableRow(label) ==
  CASE label = <<"s","h","a","t","t","e","r","e","d","_","g","l","a","s","s">> ->
         <<"Severo", "Para-brisa/Vidros", <<"V","i","d","r","o"," ","Q","u","e","b","r","a","d","o">>>>
    [] label = <<"b","r","o","k","e","n","_","l","a","m","p">> ->
         <<"Severo", "Faróis/Lanternas", <<"L","â","m","p","a","d","a"," ","Q","u","e","b","r","a","d","a">>>>
    [] label = <<"f","l","a","t","_","t","i","r","e">> ->
         <<"Severo", "Rodas", <<"P","n","e","u"," ","V","a","z","i","o">>>>
    [] label = <<"d","e","n","t">> ->
         <<"Moderado", "Carroceria", <<"A","m","a","s","s","a","d","o">>>>
    [] label = <<"s","c","r","a","t","c","h">> ->
         <<"Leve", "Pintura", <<"R","i","s","c","o">>>>
    [] label = <<"c","r","a","c","k">> ->
         <<"Leve", "Para-choque/Plásticos", <<"R","a","c","h","a","d","u","r","a">>>>
    [] OTHER -> <<>>

\* label.replace('_', ' ').title() of the labels outside the table, as Python
\* computes it.
TitleCased(label) ==
  CASE label = <<"r","u","s","t","_","s","p","o","t">> -> <<"R","u","s","t"," ","S","p","o","t">>
    [] label = <<"D","e","n","t">> -> <<"D","e","n","t">>
    [] label = <<"x","2","_","b">> -> <<"X","2"," ","B">>
    [] label = <<>> -> <<>>

\* C11: every record carries the seven fields; a label of the table gets the
\* table's severity, location and display name, and any other label gets
\* Indefinido, N/A and the label with spaces for underscores, title-cased.
C11_ClassificationIsTotal ==
  Aggregated =>
    /\ Len(req.body.damages) = Len(req.input)
    /\ \A k \in 1..Len(req.input) :
         LET label == req.input[k].class
             r == req.body.damages[k]
         IN  /\ DOMAIN r = {"damage_id", "class", "class_display", "confidence",
                            "severity", "location", "bbox"}
             /\ r.class = label
             /\ <<r.severity, r.location, r.class_display>> =
                  IF TableRow(label) # <<>> THEN TableRow(label)
                  ELSE <<"Indefinido", "N/A", TitleCased(label)>>

C11_Witness ==
  /\ Aggregated /\ Len(req.input) = 2
  /\ req.input[1].class = <<"x","2","_","b">>
  /\ req.body.damages[1].class_display = <<"X","2"," ","B">>
  /\ req.body.damages[1].severity = "Indefinido"
  /\ req.body.damages[2].location = "Faróis/Lanternas"

\* The display names in Python's ascending order of strings.
DisplayOrder ==
  << <<>>, <<"A","m","a","s","s","a","d","o">>, <<"D","e","n","t">>,
     <<"L","â","m","p","a","d","a"," ","Q","u","e","b","r","a","d","a">>,
     <<"P","n","e","u"," ","V","a","z","i","o">>, <<"R","a","c","h","a","d","u","r","a">>,
     <<"R","i","s","c","o">>, <<"R","u","s","t"," ","S","p","o","t">>,
     <<"V","i","d","r","o"," ","Q","u","e","b","r","a","d","o">>, <<"X","2"," ","B">> >>

\* The place of a display name in that order.
Rank(name) == CHOOSE j \in 1..Len(DisplayOrder) : DisplayOrder[j] = name

\* C12: damage_types holds exactly the class_display values of the damages,
\* those of Indefinido severity too, each once, in ascending order; it is
\* empty exactly when there is no damage.
C12_DamageTypesSortedDistinct ==
  Aggregated =>
    LET types == req.body.damage_analysis.damage_types
    IN  /\ {types[j] : j \in 1..Len(types)}
             = {req.body.damages[k].class_display : k \in 1..Len(req.body.damages)}
        /\ \A i, j \in 1..Len(types) : i < j => Rank(types[i]) < Rank(types[j])
        /\ (types = <<>>) <=> (req.body.damages = <<>>)

C12_Witness ==
  /\ Aggregated
  /\ req.body.damage_analysis.damage_types =
       << <<"R","a","c","h","a","d","u","r","a">>, <<"R","i","s","c","o">>, <<"R","u","s","t"," ","S","p","o","t">> >>
  /\ req.body.damages[1].class_display = <<"R","u","s","t"," ","S","p","o","t">>
  /\ req.body.damages[2].class_display = <<"R","i","s","c","o">>
  /\ req.body.damages[3].class_display = <<"R","a","c","h","a","d","u","r","a">>

\* ------------------------------------------- properties: artifact fetch

\* C13 (as claimed): once a network or I/O failure of the download is
\* recorded, no file is left at the artifact path.
C13_NoPartialArtifact ==
  (model_error \in FetchErrors \cup StreamErrors) => file = "absent"

\* The passes through the download block that called the network.
NetworkCalls == {i \in 1..Len(fetch_log) : fetch_log[i] # "skipped"}

\* C14 (as claimed): of two successive fetches the first of which found no
\* file, the second makes no network call.
C14_SecondFetchNeverDownloads ==
  \A i \in 1..(Len(fetch_log) - 1) :
    fetch_log[i] # "skipped" => fetch_log[i + 1] = "skipped"

\* C14 (amended): the network is called once per pass that finds no file and
\* never by one that finds a file; so once a fetch has created the file, every
\* later fetch is skipped, and two successive fetches of which the first
\* created the file make one network call.
C14_OneDownloadOnceCreated ==
  /\ fetches = Cardinality(NetworkCalls)
  /\ \A i \in 1..Len(fetch_log) :
       fetch_log[i] = "created" =>
         \A j \in (i + 1)..Len(fetch_log) : fetch_log[j] = "skipped"
  /\ (Len(fetch_log) > 0 /\ fetch_log[1] = "skipped") => fetches = 0

C14_Witness ==
  /\ fetch_log = <<"created", "skipped">>
  /\ fetches = 1
  /\ \A t \in {1, 2} : pc[t] = "done"

\* ------------------------------------------- properties: request errors

\* C15 (as claimed): a /detect request that declares an image and is served
\* by the Ready model, but whose bytes do not decode as an image, is answered
\* 400 (the user-error class) and not 500.
C15_UndecodableAnswers400 ==
  (/\ DetectDone
   /\ DeclaresImage(req.content_type)
   /\ req.seen = {"Ready"}
   /\ req.input # <<>>
   /\ req.input.fault = "decode")
  => req.status = 400

\* ------------------------------------------- properties: after a failure

\* A call of download_and_load_model begins in this step.
AttemptStarts ==
  \E t \in Threads : pc[t] \in {"idle", "done"} /\ pc'[t] = "test_opencv"

\* C16 (as claimed): in the Failed state, with no load running, the state and
\* its reason change and a load starts only in a step that is an explicit new
\* attempt; and the new attempts are single-flight: at most one load runs.
C16_FailureNotRetried ==
  [][ModelState = "Failed" =>
       /\ (Running = {} /\ ~AttemptStarts) =>
            (Running' = {} /\ UNCHANGED <<model, model_ready, model_error>>)
       /\ Cardinality(Running') <= 1]_vars

\* ------------------------------------------- properties: readiness

\* The answers of GET /ready given in lifecycle state st.
AnswersIn(st) ==
  {[model_ready |-> a.model_ready, model_error |-> a.model_error] :
     a \in {b \in answers : b.state = st}}

\* C17 (as claimed): an answer of GET /ready given in one lifecycle state has
\* model_ready true exactly when that state is Ready and a non-null
\* model_error exactly when it is Failed, and no answer is given in two
\* different states, so the answer tells the four states apart.
C17_ReadyTellsStatesApart ==
  /\ \A a \in answers :
       /\ a.model_ready <=> a.state = "Ready"
       /\ a.model_error # None <=> a.state = "Failed"
  /\ \A st1, st2 \in {"NotLoaded", "Loading", "Ready", "Failed"} :
       st1 # st2 => AnswersIn(st1) \cap AnswersIn(st2) = {}

\* ------------------------------------------- properties: lifecycle steps

\* C18: every change of the lifecycle state is NotLoaded -> Loading,
\* Loading -> Ready or Loading -> Failed.
C18_OnlyAllowedTransitions ==
  [][ModelState' # ModelState =>
       <<ModelState, ModelState'>> \in { <<"NotLoaded", "Loading">>,
                                         <<"Loading", "Ready">>,
                                         <<"Loading", "Failed">> }]_vars

C18_Witness ==
  /\ ModelState = "Failed"
  /\ model_error \in StreamErrors
  /\ fetch_log = <<"created">>
  /\ pc[1] = "done"

\* A step of a request handler, whatever the route and the outcome: the
\* steps that move the request (a step of the loader leaves req.pc alone).
HandlerStep == req.pc' # req.pc

\* C19: no step of a request handler (/, /health, /ready, /debug, /model/info,
\* /detect; answered or abandoned) changes model, model_ready or model_error
\* or moves the loader, and the load reaches its end whatever requests arrive.
C19_HandlersLeaveLifecycle ==
  /\ [][HandlerStep => UNCHANGED <<model, model_ready, model_error, pc>>]_vars
  /\ <>(pc[1] = "done")

C19_Witness ==
  /\ req.endpoint = "/detect"
  /\ req.pc = "done"
  /\ req.status = 0
  /\ {"Loading", "Ready"} \subseteq req.seen
  /\ pc[1] = "done"
  /\ model_ready

\* C20: once model_ready is true it stays true and the handle stays the same
\* object, and a /detect request of an image upload that lives in the Ready
\* state passes the readiness gate and enters the try block.
C20_ReadyIsStable ==
  [][/\ model_ready => (model_ready' /\ model' = model /\ model # None)
     /\ (/\ (req.endpoint = "/detect")'
         /\ (req.pc = "done")'
         /\ DeclaresImage(req.content_type)'
         /\ (req.seen = {"Ready"})')
        => ("read" \in req.stages /\ req.status \in {200, 500})']_vars

C20_Witness ==
  /\ DetectDone
  /\ req.seen = {"Ready"}
  /\ req.status = 500
  /\ req.stages = StagesUpTo("infer")
  /\ model_ready
  /\ model = <<"YOLO", 1>>

\* ------------------------------------------- properties: the handle

\* The handle in the global was assigned by a load whose test inference has
\* returned: the load stands at model_ready = True, or has ended with no
\* reason recorded.
WarmedUp ==
  \E t \in Threads :
    /\ model = <<"YOLO", t>>
    /\ pc[t] = "set_ready" \/ (pc[t] = "done" /\ model_error = None)

\* C21: whenever model_ready is true the handle is not None and its test
\* inference has completed, and so it is for every /detect request that has
\* passed the readiness gate, however the loader and the handlers interleave.
C21_ReadyHandleIsWarm ==
  /\ model_ready => (model # None /\ WarmedUp)
  /\ (req.endpoint = "/detect" /\ req.pc = "run") =>
       (req.read_ready /\ model_ready /\ model # None /\ WarmedUp)
  /\ (DetectDone /\ "infer" \in req.stages) => (model # None /\ WarmedUp)

C21_Witness ==
  /\ req.endpoint = "/detect"
  /\ req.pc = "run"
  /\ req.seen = {"Loading", "Ready"}
  /\ model = <<"YOLO", 1>>
  /\ pc[1] = "done"

\* ------------------------------------------- properties: load outcomes

\* The reasons download_and_load_model can record.
Reasons ==
  {OpenCVError} \cup FetchErrors \cup StreamErrors
    \cup {YoloError(e) : e \in YoloExceptions}

C23_AnnotatedOnlyIfRendered ==
  (DetectDone /\ req.status = 200 /\ "annotated_image" \in DOMAIN req.body) =>
    /\ req.input # <<>>
    /\ req.input.include_annotated_image
    /\ Len(ExtractDetections(req.input.boxes)) > 0
    /\ req.input.render_ok

C23_Witness ==
  /\ DetectDone
  /\ req.status = 200
  /\ req.input # <<>>
  /\ req.input.include_annotated_image
  /\ req.input.boxes = <<>>
  /\ req.body.damage_analysis.total_damages = 0
  /\ "annotated_image" \notin DOMAIN req.body

====
